---- MODULE Spec2Model ----
(***************************************************************************)
(* State-machine model of the pairwise alignment engine of spateo:         *)
(*   src/spateo/alignment/methods/morpho_class.py  (class Morpho_pairwise) *)
(*   src/spateo/alignment/methods/morpho.py        (get_P)                 *)
(*                                                                         *)
(* One action per method of Morpho_pairwise, sequenced by pc exactly as    *)
(* __init__ and run call them.  An attribute of the Python object is a     *)
(* variable of the same name; the set attrs holds the names of the         *)
(* attributes assigned so far, so that reading an attribute that was never *)
(* assigned (AttributeError) or a local that was never bound               *)
(* (UnboundLocalError) ends the run in pc = "error".                       *)
(*                                                                         *)
(* Numbers.  sigma2 is an integer count of units of 1e-4, gamma an integer *)
(* count of hundredths.  Every other real is an exact fraction <<n, d>>    *)
(* (d > 0, lowest terms); <<1,0>>, <<-1,0>> and <<0,0>> are the IEEE       *)
(* values +inf, -inf and NaN that a float division by zero produces.       *)
(* Values the code obtains from exp, digamma, SVD or pinv of the data are  *)
(* drawn from the finite sets held in the variable data.                   *)
(***************************************************************************)
EXTENDS Integers, Sequences, FiniteSets, TLC

(***************************************************************************)
(* Exact fractions with the IEEE special values.                           *)
(***************************************************************************)
Abs(x) == IF x < 0 THEN -x ELSE x

Sgn(x) == IF x < 0 THEN -1 ELSE IF x = 0 THEN 0 ELSE 1

RECURSIVE GCD(_, _)
GCD(a, b) == IF b = 0 THEN a ELSE GCD(b, a % b)

Q(n, d) ==
  IF d = 0 THEN <<Sgn(n), 0>>
  ELSE LET g == GCD(Abs(n), Abs(d))
       IN  <<Sgn(d) * (n \div g), Abs(d) \div g>>

QNaN == <<0, 0>>

QInf == <<1, 0>>

Q0 == <<0, 1>>

Q1 == <<1, 1>>

QHalf == <<1, 2>>

IsNaN(x) == x[2] = 0 /\ x[1] = 0

QNeg(x) == <<-x[1], x[2]>>

QAdd(x, y) ==
  IF IsNaN(x) \/ IsNaN(y) THEN QNaN
  ELSE IF x[2] = 0 /\ y[2] = 0 THEN (IF x[1] = y[1] THEN x ELSE QNaN)
  ELSE IF x[2] = 0 THEN x
  ELSE IF y[2] = 0 THEN y
  ELSE LET g == GCD(x[2], y[2])
       IN  Q(x[1] * (y[2] \div g) + y[1] * (x[2] \div g), (x[2] \div g) * y[2])

QSub(x, y) == QAdd(x, QNeg(y))

QMul(x, y) ==
  IF IsNaN(x) \/ IsNaN(y) THEN QNaN
  ELSE IF x[2] = 0 \/ y[2] = 0
       THEN <<Sgn(x[1]) * Sgn(y[1]), 0>>
  ELSE LET g1 == GCD(Abs(x[1]), y[2])
           g2 == GCD(Abs(y[1]), x[2])
           a  == IF g1 = 0 THEN 1 ELSE g1
           b  == IF g2 = 0 THEN 1 ELSE g2
       IN  Q((x[1] \div a) * (y[1] \div b), (x[2] \div b) * (y[2] \div a))

\* 1/x as floats divide: 1/0 = +inf, 1/inf = 0
QInv(x) ==
  IF IsNaN(x) THEN QNaN
  ELSE IF x[2] = 0 THEN Q0
  ELSE IF x[1] = 0 THEN QInf
  ELSE <<Sgn(x[1]) * x[2], Abs(x[1])>>

QDiv(x, y) == QMul(x, QInv(y))

\* comparisons are false as soon as a NaN is involved, as for floats
QLe(x, y) ==
  /\ ~IsNaN(x) /\ ~IsNaN(y)
  /\ IF x[2] = 0 /\ y[2] = 0 THEN x[1] <= y[1]
     ELSE IF x[2] = 0 THEN x[1] < 0
     ELSE IF y[2] = 0 THEN y[1] > 0
     ELSE x[1] * y[2] <= y[1] * x[2]

QLt(x, y) == QLe(x, y) /\ x # y

QMin(x, y) == IF QLe(x, y) THEN x ELSE y

QInt(k) == <<k, 1>>

RECURSIVE QSum(_, _)
QSum(f, n) == IF n = 0 THEN Q0 ELSE QAdd(QSum(f, n - 1), f[n])

(***************************************************************************)
(* Small vectors and matrices over the fractions.                          *)
(***************************************************************************)
QVec(v) == [k \in DOMAIN v |-> QInt(v[k])]

VAdd(u, v) == [k \in DOMAIN u |-> QAdd(u[k], v[k])]

VScale(c, v) == [k \in DOMAIN v |-> QMul(c, v[k])]

\* c * new + (1 - c) * old, the exponential blending of the SVI updates
VBlend(c, new, old) == VAdd(VScale(c, new), VScale(QSub(Q1, c), old))

\* 2 x 2 matrices are <<m11, m12, m21, m22>>
MatMul(A, B) ==
  << QAdd(QMul(A[1], B[1]), QMul(A[2], B[3])),
     QAdd(QMul(A[1], B[2]), QMul(A[2], B[4])),
     QAdd(QMul(A[3], B[1]), QMul(A[4], B[3])),
     QAdd(QMul(A[3], B[2]), QMul(A[4], B[4])) >>

Transpose(A) == <<A[1], A[3], A[2], A[4]>>

Det(A) == QSub(QMul(A[1], A[4]), QMul(A[2], A[3]))

IMat(a, b, c, d) == <<QInt(a), QInt(b), QInt(c), QInt(d)>>

Identity2 == IMat(1, 0, 0, 1)

\* x * R^T + t for one point x (a row vector)
ApplyRigid(x, Rm, tv) ==
  << QAdd(QAdd(QMul(x[1], Rm[1]), QMul(x[2], Rm[2])), tv[1]),
     QAdd(QAdd(QMul(x[1], Rm[3]), QMul(x[2], Rm[4])), tv[2]) >>

IsRotation(Rm) == MatMul(Transpose(Rm), Rm) = Identity2 /\ Det(Rm) = Q1

Range(f) == {f[k] : k \in DOMAIN f}

(***************************************************************************)
(* Program constants.  sigma2 thresholds are in units of 1e-4, gamma       *)
(* thresholds in hundredths.                                               *)
(***************************************************************************)
Sigma2Unit == 100 * 100

NonrigidIter == 80

NonrigidSigma2 == 150

Sigma2Floor == 10

Sigma2EarlyFloor == 100

EarlyIters == 100

GammaInit == 50

GammaMax == 99

GammaMin == 1

SVI_deacy == 10

\* the last iteration before the outlier variance is annealed
AnnealStart == 5

\* the regulariser added to the column sums of get_P is 1 / EpsDen; the
\* source has 1e-8, the model a coarser positive value so that the exact
\* fractions stay within 32-bit integers
EpsDen == 1024

Eps == <<1, EpsDen>>

\* pi of (2 * pi * sigma2) ^ (D / 2), as a fraction
Pi == <<22, 7>>

(***************************************************************************)
(* Bounds of the model: the max_iter values the runs are started with.     *)
(***************************************************************************)
MaxIter == 2

MaxIterLong == 102

MaxIterRigid == 12

MaxIterBatch == 7

MaxIterBA == 8

MaxIterAnneal == 12

RootMax == 5

MaxIterEM == 3

\* width of the middle step of the exp table below
ExpHalfWidth == 50

(***************************************************************************)
(* get_P of morpho.py and the helpers of the E-step.                       *)
(***************************************************************************)
\* exp(-x) for x >= 0, tabulated: exact at 0, 1/2 up to ExpHalfWidth and
\* underflowing to 0 beyond, as float exp does for large arguments
ExpNeg(x) ==
  IF IsNaN(x) THEN QNaN
  ELSE IF QLe(x, Q0) THEN Q1
  ELSE IF QLe(x, QInt(ExpHalfWidth)) THEN QHalf
  ELSE Q0

\* sigma2 (units of 1e-4) and gamma (hundredths) as fractions
S2(s) == Q(s, Sigma2Unit)

G100(g) == Q(g, 100)

ColSum(M, j) == QSum([i \in DOMAIN M |-> M[i][j]], Len(M))

\* a sign slip in the inlier share
MutInlier(so, cs) == QAdd(Q1, QDiv(so, QAdd(so, cs)))

\* 1 - spatial_outlier / (spatial_outlier + column sum), morpho.py line 127
spatial_inlier_of(so, cs) == QSub(Q1, QDiv(so, QAdd(so, cs)))

\* get_P: SpatialDistMat, Sigma, alpha are fractions, GeneDistMat integers;
\* outlier_variance = 1 is the source's outlier_variance = None
get_P(SpatialDistMat, GeneDistMat, sigma2, beta2, alpha, gamma, Sigma, samples_s, outlier_variance) ==
  LET NA == Len(SpatialDistMat)
      I  == 1..NA
      J  == 1..Len(SpatialDistMat[1])
      outlier_s == QMul(samples_s, QInt(NA))
      exp_SpatialMat == [i \in I |-> [j \in J |->
          ExpNeg(QDiv(SpatialDistMat[i][j],
                      QDiv(QMul(QInt(2), sigma2), outlier_variance)))]]
      mul == [i \in I |-> QMul(alpha[i], ExpNeg(QDiv(Sigma[i], sigma2)))]
      spatial_term1 == [i \in I |-> [j \in J |-> QMul(exp_SpatialMat[i][j], mul[i])]]
      spatial_outlier ==
          QDiv(QMul(QMul(QMul(QInt(2), Pi), sigma2), QSub(Q1, gamma)),
               QMul(gamma, outlier_s))
      spatial_term2 == [j \in J |-> QAdd(spatial_outlier, ColSum(spatial_term1, j))]
      spatial_P == [i \in I |-> [j \in J |->
          QDiv(spatial_term1[i][j], spatial_term2[j])]]
      spatial_inlier == [j \in J |->
          spatial_inlier_of(spatial_outlier, ColSum(exp_SpatialMat, j))]
      expS == [i \in I |-> [j \in J |->
          ExpNeg(QDiv(SpatialDistMat[i][j], QMul(QInt(2), sigma2)))]]
      term1 == [i \in I |-> [j \in J |->
          QMul(QMul(expS[i][j],
                    ExpNeg(QDiv(QInt(GeneDistMat[i][j]), QMul(QInt(2), beta2)))),
               mul[i])]]
      P0 == [i \in I |-> [j \in J |->
          QDiv(term1[i][j], QAdd(ColSum(term1, j), Eps))]]
      term1s == [i \in I |-> [j \in J |-> QMul(expS[i][j], mul[i])]]
      sP0 == [i \in I |-> [j \in J |->
          QDiv(term1s[i][j], QAdd(ColSum(term1s, j), Eps))]]
  IN  [ P        |-> [i \in I |-> [j \in J |-> QMul(spatial_inlier[j], P0[i][j])]],
        spatial_P |-> spatial_P,
        sigma2_P |-> [i \in I |-> [j \in J |-> QMul(spatial_inlier[j], sP0[i][j])]] ]

\* squared Euclidean distances between the rows of X and of Y
calc_distance(X, Y) ==
  [i \in DOMAIN X |-> [j \in DOMAIN Y |->
      QAdd(QMul(QSub(X[i][1], Y[j][1]), QSub(X[i][1], Y[j][1])),
           QMul(QSub(X[i][2], Y[j][2]), QSub(X[i][2], Y[j][2])))]]

\* get_P_core: the assignment block it returns.  Its three marginals
\* (K_NA_spatial, K_NA_sigma2, sigma2_related) are sums over that block and
\* the two side blocks of get_P; the object keeps them as attributes whose
\* values only the numerics read
get_P_core(spatial_dist, exp_dist, sigma2, beta2, alpha, gamma, Sigma, samples_s, sigma2_variance) ==
  get_P(spatial_dist, exp_dist, sigma2, beta2, alpha, gamma, Sigma, samples_s, sigma2_variance).P

\* rows / columns picked by a sequence of indices (X[idx, :], M[:, idx])
Rows(X, idx) == [k \in DOMAIN idx |-> X[idx[k]]]

Cols(M, idx) == [i \in DOMAIN M |-> [k \in DOMAIN idx |-> M[i][idx[k]]]]

\* the index ranges of the chunks _split cuts 1..n into
RECURSIVE SplitIdx(_, _, _)
SplitIdx(from, n, size) ==
  IF from > n THEN << >>
  ELSE LET to == IF from + size - 1 > n THEN n ELSE from + size - 1
       IN  << [k \in 1..(to - from + 1) |-> from + k - 1] >> \o SplitIdx(to + 1, n, size)

\* np.roll(perm, k): entry i moves to position i + k, cyclically
Roll(perm, k) ==
  LET n == Len(perm)
  IN  [i \in 1..n |-> perm[((i - 1 - k) % n) + 1]]

BBoxVolume(X) ==
  LET xs == {X[i][1] : i \in DOMAIN X}
      ys == {X[i][2] : i \in DOMAIN X}
      Max(S) == CHOOSE m \in S : \A x \in S : x <= m
      Min(S) == CHOOSE m \in S : \A x \in S : m <= x
  IN  (Max(xs) - Min(xs)) * (Max(ys) - Min(ys))

(***************************************************************************)
(* The state of one Morpho_pairwise object.                                *)
(***************************************************************************)
VARIABLES
  cfg,            \* the arguments of __init__
  data,           \* the two samples and the values their numerics produce
  pc,             \* the method __init__ / run executes next
  err,            \* the exception that ended the object's life, if any
  attrs,          \* names of the attributes assigned so far
  iter,           \* loop variable of run
  trace,          \* methods called so far in the current iteration
  counts,         \* per unconditional call of the loop body, the calls completed
  SVI_mode, batch_size, batch_perm, batch_idx, step_size, split_size,
  sigma2, gamma, alpha, nonrigid_flag, sigma2_variance,
  R, t, RnA, VnA, XAHat, Coff, SigmaDiag,
  P, K_NB,
  guidance, optimal_RnA, vecfld,
  batches,        \* the batches of the latest iterations, the newest last
  inlier_set,     \* the candidate pairs _coarse_rigid_alignment keeps
  ba,             \* the locals of a call of BA_align
  base,           \* self.coordsA and self.coordsB, the normalised coordinates
  rig,            \* how often each sum of the last _update_rigid holds the anchor term
  em,             \* the locals of a call of nbn_em
  probability_parameters  \* self.probability_parameters of the one feature layer

ctlVars == <<cfg, data>>

sviVars == <<SVI_mode, batch_size, batch_perm, batch_idx, step_size, split_size>>

scalarVars == <<sigma2, gamma, alpha, nonrigid_flag, sigma2_variance>>

rigidVars == <<R, t, RnA>>

nonrigidVars == <<VnA, Coff, SigmaDiag>>

assignVars == <<P, K_NB>>

outVars == <<guidance, optimal_RnA, vecfld>>

objVars == <<pc, err, attrs, iter, trace, counts, sviVars, scalarVars, rigidVars, nonrigidVars, XAHat, assignVars, outVars, batches, inlier_set, base, rig, probability_parameters>>

vars == <<cfg, data, objVars, ba, em>>

NoErr == [at |-> "", exc |-> ""]

LoopSteps == {"_update_batch", "_update_assignment_P", "_update_gamma", "_update_alpha", "_update_nonrigid", "_update_rigid", "recompose", "_update_sigma2"}

\* the calls the loop body makes whatever the state
CountedSteps == LoopSteps \ {"_update_nonrigid"}

ZeroCounts == [m \in CountedSteps |-> 0]

NA == Len(data.sample.coordsA)

NB == Len(data.sample.coordsB)

coordsA == [i \in 1..NA |-> QVec(data.sample.coordsA[i])]

coordsB == [j \in 1..NB |-> QVec(data.sample.coordsB[j])]

ZeroVec == <<Q0, Q0>>

(***************************************************************************)
(* Inputs: configurations and samples.                                     *)
(***************************************************************************)
Rot90 == IMat(0, -1, 1, 0)

Flip == IMat(1, 0, 0, -1)

Ones == <<Q1, Q1>>

\* two moving and four reference points in general position; gene
\* dissimilarities; the kernel column U of the single inducing point
RegularSample ==
  [ coordsA |-> << <<1, 0>>, <<0, 1>> >>,
    coordsB |-> << <<1, 0>>, <<0, 1>>, <<1, 1>>, <<0, 0>> >>,
    G       |-> << <<0, 60, 1, 60>>, <<60, 0, 1, 60>> >>,
    beta2   |-> QHalf,
    U       |-> <<Q1, QHalf>>,
    scale   |-> QInt(2),
    mean    |-> <<Q1, Q1>> ]

\* all points of both samples on one axis-parallel line: the bounding box
\* has volume 0
FlatSample ==
  [ coordsA |-> << <<0, 0>>, <<1, 0>> >>,
    coordsB |-> << <<0, 0>>, <<1, 0>>, <<2, 0>>, <<3, 0>> >>,
    G       |-> << <<0, 60, 1, 60>>, <<60, 0, 1, 60>> >>,
    beta2   |-> QHalf,
    U       |-> <<Q1, QHalf>>,
    scale   |-> QInt(2),
    mean    |-> <<Q1, Q1>> ]

\* two moving and six reference points
WideSample ==
  [ coordsA |-> << <<1, 0>>, <<0, 1>> >>,
    coordsB |-> << <<1, 0>>, <<0, 1>>, <<1, 1>>, <<0, 0>>, <<2, 0>>, <<2, 1>> >>,
    G       |-> << <<0, 60, 1, 60, 60, 1>>, <<60, 0, 1, 60, 1, 60>> >>,
    beta2   |-> QHalf,
    U       |-> <<Q1, QHalf>>,
    scale   |-> QInt(2),
    mean    |-> <<Q1, Q1>> ]

\* line 605
top_K == 10

\* line 696: the index into the descending order of the weights
InlierRank == 20

\* inlier weights that differ from pair to pair
GradedWeights == <<95, 10, 80, 30, 60, 45, 20, 70, 5, 90, 55>>

\* a profile with every weight below 0.5
LowWeights == <<45, 10, 40, 30, 20, 5, 35, 15, 25, 1, 2>>

\* what the data-dependent numerics of a run can return: sig the values of
\* the sigma2 expression (units of 1e-4), gam of the gamma expression
\* (hundredths), alphas of the alpha expression, svd the factor pairs
\* <<svdU, svdV>>, tv the translations, coff the kernel coefficients,
\* sdiag the GP variances, perms the permutations _randperm draws,
\* voxels the numbers of voxels voxel_data leaves of the two samples,
\* weights the inlier weights of inlier_from_NN (hundredths, repeated
\* over the candidate pairs)
Numerics(sig, gam, alphas, svd, tv, coff, sdiag, perms) ==
  [sig |-> sig, gam |-> gam, alphas |-> alphas, svd |-> svd, tv |-> tv, coff |-> coff, sdiag |-> sdiag, perms |-> perms, voxels |-> <<top_K + 1, top_K + 1>>, weights |-> GradedWeights, backend |-> "numpy"]

DataSet ==
  { [sample |-> RegularSample,
     num |-> Numerics({120, 200}, {50}, {Ones}, {<<Identity2, Identity2>>, <<Rot90, Identity2>>},
                      {<<Q1, Q0>>}, {<<Q1, Q0>>}, {<<Q0, Q0>>}, {<<3, 1, 4, 2>>})] }

\* line 80: the default of partial_robust_level
partial_robust_level == 25

ValidDissimilarity == {"kl", "sym_kl", "euc", "euclidean", "square_euc", "square_euclidean", "cos", "cosine", "label"}

ValidProbabilityType == {"gauss", "gaussian", "cos", "cosine", "label"}

ValidGuidanceEffects == {"nonrigid", "rigid", "both"}

\* argument lists without a fault; guidance_effect "False" is the Python
\* value False
GoodCfgs(maxIters, sig0) ==
  [ rep_layer_ok : {TRUE}, init_layer_ok : {TRUE},
    spatialA_ok : {TRUE}, spatialB_ok : {TRUE}, dims_ok : {TRUE},
    dissimilarity : {"kl"}, probability_type : {"gauss"}, probability_parameters : {"None"},
    guidance_effect : {"False", "rigid", "nonrigid", "both"},
    guidance_pair : BOOLEAN, guidance_epsilon : {1},
    nn_init : BOOLEAN, max_iter : maxIters, SVI_mode : BOOLEAN,
    batch_size : {2}, pre_compute_dist : BOOLEAN,
    use_chunk : BOOLEAN, chunk_quota : {3},
    vecfld_key_added : BOOLEAN, sigma2_init : sig0,
    partial_robust_level : {partial_robust_level} ]

FaultNames == {"rep_layer", "init_layer", "spatialA", "spatialB", "dims", "dissimilarity", "probability_type", "guidance_effect"}

\* the argument list c with fault f put in
Break(c, f) ==
  CASE f = "rep_layer" -> [c EXCEPT !.rep_layer_ok = FALSE]
    [] f = "init_layer" -> [c EXCEPT !.init_layer_ok = FALSE, !.nn_init = TRUE]
    [] f = "spatialA" -> [c EXCEPT !.spatialA_ok = FALSE]
    [] f = "spatialB" -> [c EXCEPT !.spatialB_ok = FALSE]
    [] f = "dims" -> [c EXCEPT !.dims_ok = FALSE]
    [] f = "dissimilarity" -> [c EXCEPT !.dissimilarity = "manhattan"]
    [] f = "probability_type" -> [c EXCEPT !.probability_type = "poisson"]
    [] f = "guidance_effect" -> [c EXCEPT !.guidance_effect = "affine"]

\* the configuration faults of one argument list
Faults(c) ==
  {f \in FaultNames :
     \/ f = "rep_layer" /\ ~c.rep_layer_ok
     \/ f = "init_layer" /\ c.nn_init /\ ~c.init_layer_ok
     \/ f = "spatialA" /\ ~c.spatialA_ok
     \/ f = "spatialB" /\ ~c.spatialB_ok
     \/ f = "dims" /\ ~c.dims_ok
     \/ f = "dissimilarity" /\ c.dissimilarity \notin ValidDissimilarity
     \/ f = "probability_type" /\ c.probability_type \notin ValidProbabilityType
     \/ f = "guidance_effect" /\ c.guidance_effect \notin (ValidGuidanceEffects \cup {"False"})}

\* argument lists with at most one fault
\* lines 62-63: the probability types and parameters of the one feature
\* layer, on unguided runs of one iteration
ProbCfgs ==
  {[c EXCEPT !.probability_type = p_t, !.probability_parameters = p_p] :
     c \in {d \in GoodCfgs({1}, {200}) :
              /\ d.guidance_effect = "False" /\ ~d.guidance_pair /\ ~d.nn_init
              /\ d.pre_compute_dist /\ ~d.use_chunk /\ ~d.vecfld_key_added},
     p_t \in {"gauss", "gaussian", "cos"}, p_p \in {"None", "given"}}

CfgSet ==
  GoodCfgs({1, MaxIter}, {120, 200}) \cup {Break(c, f) : c \in GoodCfgs({1}, {200}), f \in FaultNames}
    \cup ProbCfgs

\* BA_align, nbn_em is not called
NoCall == [pc |-> "idle"]

\* _update_rigid has not run
NoRigid == [PXA |-> 0, PXB |-> 0, PVA |-> 0, Sp |-> 0, t_numerator |-> 0, t_deno |-> 0]

\* the object before __init__ runs
Blank ==
  /\ pc = "_check" /\ err = NoErr /\ attrs = {} /\ iter = -1
  /\ trace = << >> /\ counts = ZeroCounts
  /\ SVI_mode = cfg.SVI_mode /\ batch_size = cfg.batch_size
  /\ batch_perm = << >> /\ batch_idx = << >> /\ step_size = Q1 /\ split_size = 0
  /\ sigma2 = 0 /\ gamma = 0 /\ alpha = << >> /\ nonrigid_flag = FALSE
  /\ sigma2_variance = Q0
  /\ R = Identity2 /\ t = ZeroVec /\ RnA = << >>
  /\ VnA = << >> /\ Coff = ZeroVec /\ SigmaDiag = << >> /\ XAHat = << >>
  /\ P = << >> /\ K_NB = << >>
  /\ guidance = FALSE /\ optimal_RnA = << >> /\ vecfld = FALSE
  /\ batches = << >> /\ inlier_set = {}
  /\ base = [coordsA |-> << >>, coordsB |-> << >>] /\ rig = NoRigid
  /\ probability_parameters = cfg.probability_parameters

Init ==
  /\ cfg \in CfgSet
  /\ data \in DataSet
  /\ Blank
  /\ ba = NoCall /\ em = NoCall

Raise(where, exc) ==
  /\ pc' = "error"
  /\ err' = [at |-> where, exc |-> exc]

(***************************************************************************)
(* __init__: _check, _align_preprocess, _construct_kernel,                 *)
(* _initialize_variational_variables, in this order.                       *)
(***************************************************************************)
\* a check that forgets the spatial key of sampleB
MutCheckError(c) ==
  IF ~c.rep_layer_ok THEN "ValueError"
  ELSE IF ~c.spatialA_ok THEN "KeyError"
  ELSE IF c.dissimilarity \notin ValidDissimilarity THEN "ValueError"
  ELSE IF c.probability_type \notin ValidProbabilityType THEN "ValueError"
  ELSE IF c.nn_init /\ ~c.init_layer_ok THEN "ValueError"
  ELSE IF c.guidance_effect # "False" /\ c.guidance_effect \notin ValidGuidanceEffects THEN "ValueError"
  ELSE ""

\* the exception _check raises for an argument list, "" when it returns
CheckError(c) ==
  IF ~c.rep_layer_ok THEN "ValueError"
  ELSE IF ~c.spatialA_ok THEN "KeyError"
  ELSE IF ~c.spatialB_ok THEN "KeyError"
  ELSE IF c.dissimilarity \notin ValidDissimilarity THEN "ValueError"
  ELSE IF c.probability_type \notin ValidProbabilityType THEN "ValueError"
  ELSE IF c.nn_init /\ ~c.init_layer_ok THEN "ValueError"
  ELSE IF c.guidance_effect # "False" /\ c.guidance_effect \notin ValidGuidanceEffects THEN "ValueError"
  ELSE ""

Check ==
  /\ pc = "_check"
  /\ IF CheckError(cfg) # ""
     THEN Raise("_check", CheckError(cfg))
     ELSE pc' = "_align_preprocess" /\ err' = err
  /\ UNCHANGED <<ctlVars, ba, em, base, rig, probability_parameters, batches, inlier_set, attrs, iter, trace, counts, sviVars, scalarVars, rigidVars, nonrigidVars, XAHat, assignVars, outVars>>

AlignPreprocess ==
  /\ pc = "_align_preprocess"
  /\ IF ~cfg.dims_ok
     THEN /\ Raise("_align_preprocess", "AssertionError")
          /\ UNCHANGED <<attrs, guidance, base>>
     ELSE /\ pc' = "_construct_kernel" /\ err' = err
          /\ base' = [coordsA |-> coordsA, coordsB |-> coordsB]
          /\ IF cfg.guidance_pair /\ cfg.guidance_effect # "False" /\ cfg.guidance_epsilon > 0
             THEN \* _guidance_pair_preprocess: X_BI, X_AI only
                  /\ attrs' = attrs \cup {"coordsA", "coordsB", "X_BI", "X_AI"}
                  /\ guidance' = guidance
             ELSE /\ attrs' = attrs \cup {"coordsA", "coordsB", "guidance"}
                  /\ guidance' = FALSE
  /\ UNCHANGED <<ctlVars, ba, em, rig, probability_parameters, batches, inlier_set, iter, trace, counts, sviVars, scalarVars, rigidVars, nonrigidVars, XAHat, assignVars, optimal_RnA, vecfld>>

ConstructKernel ==
  /\ pc = "_construct_kernel"
  /\ IF "guidance" \notin attrs
     THEN Raise("_construct_kernel", "AttributeError") /\ attrs' = attrs \cup {"inducing_variables", "GammaSparse", "U"}
     ELSE /\ pc' = "_initialize_variational_variables" /\ err' = err
          /\ attrs' = attrs \cup {"inducing_variables", "GammaSparse", "U", "U_I"}
  /\ UNCHANGED <<ctlVars, ba, em, base, rig, probability_parameters, batches, inlier_set, iter, trace, counts, sviVars, scalarVars, rigidVars, nonrigidVars, XAHat, assignVars, outVars>>

\* min(max(int(NB / 10), batch_size), NB)
InitBatchSize(nb, bs) ==
  LET m == IF nb \div 10 > bs THEN nb \div 10 ELSE bs
  IN  IF m < nb THEN m ELSE nb

\* min(int(chunk_capacity * chunk_base / NA), NB), at least 1
InitSplitSize(quota, nb) ==
  LET m == IF quota < nb THEN quota ELSE nb
  IN  IF m = 0 THEN 1 ELSE m

\* _init_probability_parameters (called at line 490): a layer with a
\* parameter is skipped, a "gauss" layer gets the bandwidth of lines
\* 554-568, any other type is passed over
InitProbabilityParameters(p_t, p_p) ==
  IF p_p # "None" THEN p_p
  ELSE IF p_t = "gauss" THEN "bandwidth"
  ELSE p_p

InitializeVariationalVariables ==
  /\ pc = "_initialize_variational_variables"
  /\ pc' = "run" /\ err' = err
  /\ sigma2' = cfg.sigma2_init
  /\ sigma2_variance' = Q1
  /\ alpha' = [i \in 1..NA |-> Q1]
  /\ gamma' = GammaInit
  /\ VnA' = [i \in 1..NA |-> ZeroVec]
  /\ XAHat' = base.coordsA /\ RnA' = base.coordsA
  /\ Coff' = ZeroVec
  /\ SigmaDiag' = [i \in 1..NA |-> Q0]
  /\ R' = Identity2
  /\ nonrigid_flag' = FALSE
  /\ probability_parameters' = InitProbabilityParameters(cfg.probability_type, probability_parameters)
  /\ IF SVI_mode
     THEN /\ batch_size' = InitBatchSize(NB, batch_size)
          /\ batch_perm' \in data.num.perms
          /\ attrs' = attrs \cup {"sigma2", "R", "XAHat", "Sp", "Sp_spatial", "Sp_sigma2", "SigmaInv", "PXB_term", "batch_perm"}
     ELSE /\ UNCHANGED <<batch_size, batch_perm>>
          /\ attrs' = attrs \cup {"sigma2", "R", "XAHat"}
  /\ split_size' = IF cfg.use_chunk THEN InitSplitSize(cfg.chunk_quota, NB) ELSE split_size
  /\ UNCHANGED <<ctlVars, ba, em, base, rig, batches, inlier_set, iter, trace, counts, SVI_mode, batch_idx, step_size, t, assignVars, outVars>>

(***************************************************************************)
(* run: coarse alignment, distances, the loop.                             *)
(***************************************************************************)
\* a loop body that runs the alpha update before the gamma update
MutSuccessor(m) ==
  CASE m = "_update_batch" -> "_update_assignment_P"
    [] m = "_update_assignment_P" -> "_update_alpha"
    [] m = "_update_alpha" -> "_update_gamma"
    [] m = "_update_gamma" -> "_update_nonrigid"
    [] m = "_update_nonrigid" -> "_update_rigid"
    [] m = "_update_rigid" -> "recompose"
    [] m = "recompose" -> "_update_sigma2"
    [] m = "_update_sigma2" -> "loop"

\* lines 181-191: the statement of the loop body that follows m
Successor(m) ==
  CASE m = "_update_batch" -> "_update_assignment_P"
    [] m = "_update_assignment_P" -> "_update_gamma"
    [] m = "_update_gamma" -> "_update_alpha"
    [] m = "_update_alpha" -> "_update_nonrigid"
    [] m = "_update_nonrigid" -> "_update_rigid"
    [] m = "_update_rigid" -> "recompose"
    [] m = "recompose" -> "_update_sigma2"
    [] m = "_update_sigma2" -> "loop"

\* method m completes; trace and counts follow the calls of the loop body
Step(m, next) ==
  /\ pc' = next /\ err' = err
  /\ trace' = IF m \in LoopSteps THEN Append(trace, m) ELSE trace
  /\ counts' = IF m \in CountedSteps THEN [counts EXCEPT ![m] = @ + 1] ELSE counts

\* an exception inside method m of the loop: m was entered, not completed
Fail(m, exc) ==
  /\ Raise(m, exc)
  /\ trace' = IF m \in LoopSteps THEN Append(trace, m) ELSE trace
  /\ counts' = counts

\* lines 156-164: _coarse_rigid_alignment under nn_init, then the
\* precomputed expression distances
\* lines 663-674: top_K candidate pairs per voxel of either sample
CandidatePairs(vox) == top_K * (vox[1] + vox[2])

\* the exception _coarse_rigid_alignment raises, "" when it returns:
\* np.argpartition needs more than top_K entries along its axis (lines
\* 663, 668), argsort(...)[20] at least 21 candidate pairs (line 696)
CoarseError(vox) ==
  IF vox[1] <= top_K \/ vox[2] <= top_K THEN "ValueError"
  ELSE IF CandidatePairs(vox) <= InlierRank THEN "IndexError"
  ELSE ""

\* P[np.argsort(-P[:, 0])[20], 0]: the weight with exactly InlierRank
\* candidate pairs ahead of it in the descending order
RankedWeight(w) ==
  CHOOSE v \in Range(w) :
    /\ Cardinality({k \in DOMAIN w : w[k] > v}) <= InlierRank
    /\ Cardinality({k \in DOMAIN w : w[k] >= v}) > InlierRank

\* an inlier set that keeps the pairs at the threshold
MutInlierSet(w) ==
  LET r == RankedWeight(w)
      inlier_threshold == IF r < 50 THEN r ELSE 50
  IN  {k \in DOMAIN w : w[k] >= inlier_threshold}

\* lines 696-697, weights in hundredths
InlierSet(w) ==
  LET r == RankedWeight(w)
      inlier_threshold == IF r < 50 THEN r ELSE 50
  IN  {k \in DOMAIN w : w[k] > inlier_threshold}

\* the weights inlier_from_NN gives the candidate pairs of this run
PairWeights == [k \in 1..CandidatePairs(data.num.voxels) |-> data.num.weights[((k - 1) % Len(data.num.weights)) + 1]]

RunStart ==
  /\ pc = "run"
  /\ IF cfg.nn_init /\ CoarseError(data.num.voxels) # ""
     THEN /\ Raise("_coarse_rigid_alignment", CoarseError(data.num.voxels))
          /\ attrs' = attrs /\ inlier_set' = inlier_set
     ELSE /\ pc' = "loop" /\ err' = err
          /\ inlier_set' = IF cfg.nn_init THEN InlierSet(PairWeights) ELSE inlier_set
          /\ attrs' = attrs \cup (IF cfg.nn_init THEN {"inlier_A", "inlier_B", "inlier_P", "init_R", "init_t"} ELSE {})
                            \cup (IF ~SVI_mode \/ cfg.pre_compute_dist THEN {"exp_layer_dist"} ELSE {})
  /\ UNCHANGED <<ctlVars, ba, em, base, rig, probability_parameters, batches, iter, trace, counts, sviVars, scalarVars, rigidVars, nonrigidVars, XAHat, assignVars, outVars>>

\* for iter in range(max_iter)
LoopHead ==
  /\ pc = "loop"
  /\ IF iter + 1 < cfg.max_iter
     THEN /\ iter' = iter + 1
          /\ trace' = << >>
          /\ pc' = IF SVI_mode THEN "_update_batch" ELSE Successor("_update_batch")
     ELSE /\ pc' = "final_assignment"
          /\ UNCHANGED <<iter, trace>>
  /\ UNCHANGED <<ctlVars, ba, em, base, rig, probability_parameters, batches, inlier_set, err, attrs, counts, sviVars, scalarVars, rigidVars, nonrigidVars, XAHat, assignVars, outVars>>

\* a permutation that is advanced by one entry only
MutNextPerm(perm, bs) == Roll(perm, 1)

\* line 600: the permutation the next iteration draws its batch from
NextPerm(perm, bs) == Roll(perm, bs)

\* the last n entries of s
LastN(s, n) == IF Len(s) <= n THEN s ELSE SubSeq(s, Len(s) - n + 1, Len(s))

\* a step size that divides by the iteration index itself
MutStepSize(it) == QMin(Q1, Q(SVI_deacy, it))

\* line 598 (morpho.py line 460): min(1, SVI_deacy / (iter + 1))
StepSize(it) == QMin(Q1, Q(SVI_deacy, it + 1))

UpdateBatch ==
  /\ pc = "_update_batch"
  /\ step_size' = StepSize(iter)
  /\ batch_idx' = SubSeq(batch_perm, 1, batch_size)
  /\ batch_perm' = NextPerm(batch_perm, batch_size)
  /\ batches' = LastN(Append(batches, batch_idx'), NB \div batch_size)
  /\ Step("_update_batch", Successor("_update_batch"))
  /\ attrs' = attrs \cup {"step_size", "batch_idx"}
  /\ UNCHANGED <<ctlVars, ba, em, base, rig, probability_parameters, inlier_set, iter, SVI_mode, batch_size, split_size, scalarVars, rigidVars, nonrigidVars, XAHat, assignVars, outVars>>

samples_s ==
  LET a == BBoxVolume(data.sample.coordsA)
      b == BBoxVolume(data.sample.coordsB)
  IN  QInt(IF a > b THEN a ELSE b)

\* get_P_core on the reference points idx, with the object's current values
CoreOn(idx) ==
  get_P_core(calc_distance(XAHat, Rows(base.coordsB, idx)), Cols(data.sample.G, idx), S2(sigma2), data.sample.beta2, alpha, G100(gamma), SigmaDiag, samples_s, sigma2_variance)

AllB == [j \in 1..NB |-> j]

\* lines 741-774: one get_P_core per chunk of ALL reference points; the
\* blocks are concatenated along the columns
RECURSIVE ChunkFold(_, _)
ChunkFold(chunks, acc) ==
  IF chunks = << >> THEN acc
  ELSE LET c == CoreOn(Head(chunks))
       IN  ChunkFold(Tail(chunks), [i \in 1..NA |-> acc[i] \o c[i]])

Chunked == ChunkFold(SplitIdx(1, NB, split_size), [i \in 1..NA |-> << >>])

\* the attributes the last lines of _update_assignment_P assign
MarginalAttrs == {"Sp", "Sp_sigma2", "Sp_spatial", "K_NA", "K_NB"}

\* _update_assignment_P with self.SVI_mode = svi; m names the caller's step
AssignmentP(svi, m, next) ==
  IF svi /\ cfg.use_chunk
  THEN \* sigma2_related is only a local in this branch: line 807 reads the
       \* attribute, after lines 770-772 and 804-806
       /\ P' = Chunked
       /\ IF "sigma2_related" \in attrs
          THEN /\ K_NB' = [j \in 1..NB |-> ColSum(Chunked, j)]
               /\ Step(m, next)
               /\ attrs' = attrs \cup {"P", "K_NA_sigma2", "K_NA_spatial"} \cup MarginalAttrs
          ELSE /\ K_NB' = K_NB
               /\ Fail(m, "AttributeError")
               /\ attrs' = attrs \cup {"P", "K_NA_sigma2", "K_NA_spatial", "Sp", "Sp_sigma2", "Sp_spatial"}
  ELSE IF svi
  THEN IF ~cfg.pre_compute_dist
       THEN \* line 786: self.exp_layer_A does not exist
            /\ Fail(m, "AttributeError") /\ attrs' = attrs
            /\ UNCHANGED assignVars
       ELSE /\ P' = CoreOn(batch_idx)
            /\ K_NB' = [j \in 1..Len(batch_idx) |-> ColSum(P', j)]
            /\ Step(m, next)
            /\ attrs' = attrs \cup {"P", "K_NA_sigma2", "K_NA_spatial", "sigma2_related"} \cup MarginalAttrs
  ELSE IF "exp_layer_dist" \notin attrs
       THEN /\ Fail(m, "AttributeError") /\ attrs' = attrs
            /\ UNCHANGED assignVars
       ELSE /\ P' = CoreOn(AllB)
            /\ K_NB' = [j \in 1..NB |-> ColSum(P', j)]
            /\ Step(m, next)
            /\ attrs' = attrs \cup {"P", "K_NA_sigma2", "K_NA_spatial", "sigma2_related"} \cup MarginalAttrs

UpdateAssignmentP ==
  /\ pc = "_update_assignment_P"
  /\ AssignmentP(SVI_mode, "_update_assignment_P", Successor("_update_assignment_P"))
  /\ UNCHANGED <<ctlVars, ba, em, base, rig, probability_parameters, batches, inlier_set, iter, sviVars, scalarVars, rigidVars, nonrigidVars, XAHat, outVars>>

\* a clamp that lost its upper bound
MutClampGamma(g) == IF g < GammaMin THEN GammaMin ELSE g

\* lines 823-824
ClampGamma(g) ==
  LET g1 == IF g > GammaMax THEN GammaMax ELSE g
  IN  IF g1 < GammaMin THEN GammaMin ELSE g1

UpdateGamma ==
  /\ pc = "_update_gamma"
  /\ \E g \in data.num.gam : gamma' = ClampGamma(g)
  /\ Step("_update_gamma", Successor("_update_gamma"))
  /\ UNCHANGED <<ctlVars, ba, em, base, rig, probability_parameters, batches, inlier_set, attrs, iter, sviVars, sigma2, alpha, nonrigid_flag, sigma2_variance, rigidVars, nonrigidVars, XAHat, assignVars, outVars>>

UpdateAlpha ==
  /\ pc = "_update_alpha"
  /\ \E a \in data.num.alphas :
       alpha' = IF SVI_mode THEN VBlend(step_size, a, alpha) ELSE a
  /\ Step("_update_alpha", Successor("_update_alpha"))
  /\ UNCHANGED <<ctlVars, ba, em, base, rig, probability_parameters, batches, inlier_set, attrs, iter, sviVars, sigma2, gamma, nonrigid_flag, sigma2_variance, rigidVars, nonrigidVars, XAHat, assignVars, outVars>>

\* a start condition that forgets the flag
MutNonrigidDue(it, s2, flag) == (it > NonrigidIter) \/ (s2 < NonrigidSigma2)

\* line 186
NonrigidDue(it, s2, flag) == (it > NonrigidIter) \/ (s2 < NonrigidSigma2) \/ flag

\* _update_nonrigid
UpdateNonrigid ==
  IF SVI_mode
  THEN /\ \E c \in data.num.coff : \E sd \in data.num.sdiag :
            /\ Coff' = c
            /\ VnA' = [i \in 1..NA |-> VScale(data.sample.U[i], c)]
            /\ SigmaDiag' = [i \in 1..NA |-> QMul(S2(sigma2), sd[i])]
       /\ Step("_update_nonrigid", Successor("_update_nonrigid"))
       /\ attrs' = attrs
  ELSE \* line 860 reads the local PXB_term, bound in the SVI branch only
       /\ Fail("_update_nonrigid", "UnboundLocalError")
       /\ attrs' = attrs \cup {"PXB_term"}
       /\ UNCHANGED nonrigidVars

\* lines 186-188 of run
NonrigidBranch ==
  /\ pc = "_update_nonrigid"
  /\ IF NonrigidDue(iter, sigma2, nonrigid_flag)
     THEN /\ nonrigid_flag' = TRUE
          /\ UpdateNonrigid
     ELSE /\ pc' = Successor("_update_nonrigid")
          /\ UNCHANGED <<err, attrs, trace, counts, nonrigid_flag, nonrigidVars>>
  /\ UNCHANGED <<ctlVars, ba, em, base, rig, probability_parameters, batches, inlier_set, iter, sviVars, sigma2, gamma, alpha, sigma2_variance, rigidVars, XAHat, assignVars, outVars>>

\* lines 933-937: C = diag(1, det(svdU svdV)), R = svdU C svdV
SvdRotation(f) ==
  LET C == <<Q1, Q0, Q0, Det(MatMul(f[1], f[2]))>>
  IN  MatMul(MatMul(f[1], C), f[2])

MBlend(c, new, old) == [k \in 1..4 |-> QAdd(QMul(c, new[k]), QMul(QSub(Q1, c), old[k]))]

\* a rigid update that transforms the previous RnA again
MutRigidBase(b, rna) == rna

\* line 965: the coordinates the rigid transformation is applied to
RigidBase(b, rna) == b.coordsA

(***************************************************************************)
(* The sums of _update_rigid are linear in the anchor term of the coarse   *)
(* alignment, (sigma2 / lambdaReg) * inlier_P^T inlier_B for PXB and       *)
(* t_numerator, the same with inlier_A for PXA, and (sigma2 / lambdaReg) * *)
(* sum(inlier_P) for Sp and t_deno.  rig records, for each of them, how    *)
(* many times the anchor term is contained in it: 0 is the plain sum of    *)
(* lines 883-889.                                                          *)
(***************************************************************************)
\* lines 892-903: mu_XB, mu_XA, mu_Vn are names of the arrays PXB, PXA,
\* PVA, and += on an array works in place; mu_X_deno is a name of self.Sp,
\* where += works in place on a 0-d torch tensor and rebinds a numpy scalar
CentroidSums(nn_init, backend) ==
  [PXA |-> IF nn_init THEN 1 ELSE 0,
   PXB |-> IF nn_init THEN 1 ELSE 0,
   PVA |-> 0,
   Sp |-> IF nn_init /\ backend = "torch" THEN 1 ELSE 0]

\* lines 944-957: t_numerator = PXB - PVA - PXA R^T and t_deno = self.Sp,
\* each with the anchor term added under nn_init
TranslationTerms(sums, nn_init) ==
  [t_numerator |-> sums.PXB + (IF nn_init THEN 1 ELSE 0),
   t_deno |-> sums.Sp + (IF nn_init THEN 1 ELSE 0)]

\* the record of one rigid update
RigidSums(nn_init, backend) ==
  LET sums == CentroidSums(nn_init, backend)
      terms == TranslationTerms(sums, nn_init)
  IN  [PXA |-> sums.PXA, PXB |-> sums.PXB, PVA |-> sums.PVA, Sp |-> sums.Sp,
       t_numerator |-> terms.t_numerator, t_deno |-> terms.t_deno]

\* a rigid update that blends in every SVI iteration
MutBlendDue(svi, step) == svi

\* lines 938 and 960: the previous R and t are blended in
BlendDue(svi, step) == svi /\ QLt(step, Q1)

UpdateRigid ==
  /\ pc = "_update_rigid"
  /\ IF cfg.guidance_effect \in {"rigid", "both"}
     THEN \* line 928: X_AI_hat is bound under self.guidance only
          /\ Fail("_update_rigid", "UnboundLocalError")
          /\ UNCHANGED <<attrs, rigidVars, rig>>
     ELSE IF BlendDue(SVI_mode, step_size)
     THEN IF "t" \notin attrs
          THEN /\ Fail("_update_rigid", "AttributeError")
               /\ \E f \in data.num.svd : R' = MBlend(step_size, SvdRotation(f), R)
               /\ UNCHANGED <<attrs, t, RnA, rig>>
          ELSE /\ \E f \in data.num.svd : \E tn \in data.num.tv :
                    /\ R' = MBlend(step_size, SvdRotation(f), R)
                    /\ t' = VBlend(step_size, tn, t)
                    /\ RnA' = [i \in 1..NA |-> ApplyRigid(RigidBase(base, RnA)[i], R', t')]
               /\ Step("_update_rigid", Successor("_update_rigid"))
               /\ attrs' = attrs
               /\ rig' = RigidSums(cfg.nn_init, data.num.backend)
     ELSE /\ \E f \in data.num.svd : \E tn \in data.num.tv :
               /\ R' = SvdRotation(f)
               /\ t' = tn
               /\ RnA' = [i \in 1..NA |-> ApplyRigid(RigidBase(base, RnA)[i], R', t')]
          /\ Step("_update_rigid", Successor("_update_rigid"))
          /\ attrs' = attrs \cup {"t"}
          /\ rig' = RigidSums(cfg.nn_init, data.num.backend)
  /\ UNCHANGED <<ctlVars, ba, em, base, probability_parameters, batches, inlier_set, iter, sviVars, scalarVars, nonrigidVars, XAHat, assignVars, outVars>>

\* line 190: self.XAHat = self.VnA + self.RnA
Recompose ==
  /\ pc = "recompose"
  /\ XAHat' = [i \in 1..NA |-> VAdd(VnA[i], RnA[i])]
  /\ Step("recompose", Successor("recompose"))
  /\ UNCHANGED <<ctlVars, ba, em, base, rig, probability_parameters, batches, inlier_set, attrs, iter, sviVars, scalarVars, rigidVars, nonrigidVars, assignVars, outVars>>

\* a floor without the early stage
MutFloorSigma2(raw, it) == IF raw < Sigma2Floor THEN Sigma2Floor ELSE raw

\* lines 972-977
FloorSigma2(raw, it) ==
  LET s1 == IF raw < Sigma2Floor THEN Sigma2Floor ELSE raw
  IN  IF it < EarlyIters /\ s1 < Sigma2EarlyFloor THEN Sigma2EarlyFloor ELSE s1

UpdateSigma2 ==
  /\ pc = "_update_sigma2"
  /\ \E raw \in data.num.sig : sigma2' = FloorSigma2(raw, iter)
  /\ Step("_update_sigma2", Successor("_update_sigma2"))
  /\ UNCHANGED <<ctlVars, ba, em, base, rig, probability_parameters, batches, inlier_set, attrs, iter, sviVars, gamma, alpha, nonrigid_flag, sigma2_variance, rigidVars, nonrigidVars, XAHat, assignVars, outVars>>

\* lines 194-196: the full assignment after an SVI loop
FinalAssignment ==
  /\ pc = "final_assignment"
  /\ IF SVI_mode
     THEN /\ SVI_mode' = FALSE
          /\ AssignmentP(FALSE, "final_assignment", "_get_optimal_R")
     ELSE /\ pc' = "_get_optimal_R"
          /\ UNCHANGED <<err, attrs, trace, counts, SVI_mode, assignVars>>
  /\ UNCHANGED <<ctlVars, ba, em, base, rig, probability_parameters, batches, inlier_set, iter, batch_size, batch_perm, batch_idx, step_size, split_size, scalarVars, rigidVars, nonrigidVars, XAHat, outVars>>

\* _get_optimal_R: the rigid fit of the raw coordinates under P replaces
\* self.R and self.t
GetOptimalR ==
  /\ pc = "_get_optimal_R"
  /\ \E f \in data.num.svd : \E tn \in data.num.tv :
       /\ R' = SvdRotation(f)
       /\ t' = tn
       /\ optimal_RnA' = [i \in 1..NA |-> ApplyRigid(base.coordsA[i], R', t')]
  /\ pc' = "_wrap_output"
  /\ attrs' = attrs \cup {"t", "optimal_RnA"}
  /\ UNCHANGED <<ctlVars, ba, em, base, rig, probability_parameters, batches, inlier_set, err, iter, trace, counts, sviVars, scalarVars, RnA, nonrigidVars, XAHat, assignVars, guidance, vecfld>>

\* x * normalize_scales[1] + normalize_means[1]
Denormalize(X) ==
  [i \in DOMAIN X |-> VAdd(VScale(data.sample.scale, X[i]), data.sample.mean)]

\* lines 1015-1020: the attributes the transform record reads, past the
\* ones construction assigns
VecfldReads == {"R", "t", "optimal_R", "optimal_t", "init_R", "init_t"}

WrapOutput ==
  /\ pc = "_wrap_output"
  /\ XAHat' = Denormalize(XAHat)
  /\ RnA' = Denormalize(RnA)
  /\ optimal_RnA' = Denormalize(optimal_RnA)
  /\ IF cfg.vecfld_key_added /\ ~(VecfldReads \subseteq attrs)
     THEN \* line 1017: self.optimal_R is assigned nowhere
          Raise("_wrap_output", "AttributeError") /\ vecfld' = vecfld
     ELSE /\ pc' = "done" /\ err' = err
          /\ vecfld' = cfg.vecfld_key_added
  /\ UNCHANGED <<ctlVars, ba, em, base, rig, probability_parameters, batches, inlier_set, attrs, iter, trace, counts, sviVars, scalarVars, R, t, nonrigidVars, assignVars, guidance>>

Next ==
  \/ Check
  \/ AlignPreprocess
  \/ ConstructKernel
  \/ InitializeVariationalVariables
  \/ RunStart
  \/ LoopHead
  \/ UpdateBatch
  \/ UpdateAssignmentP
  \/ UpdateGamma
  \/ UpdateAlpha
  \/ NonrigidBranch
  \/ UpdateRigid
  \/ Recompose
  \/ UpdateSigma2
  \/ FinalAssignment
  \/ GetOptimalR
  \/ WrapOutput

Spec == Init /\ [][Next]_vars

(***************************************************************************)
(* Further specifications: the same object on other inputs.                *)
(***************************************************************************)
\* fault-free argument lists of a plain run, SVI or full batch
PlainCfgs(maxIters, sig0) ==
  {c \in GoodCfgs(maxIters, sig0) :
     /\ c.guidance_effect = "False" /\ ~c.guidance_pair
     /\ c.nn_init /\ c.pre_compute_dist /\ ~c.use_chunk /\ ~c.vecfld_key_added}

\* long runs: sigma2 expressions below, between and above the floors and
\* the threshold of the non-rigid start
DataLong ==
  { [sample |-> RegularSample,
     num |-> Numerics({5, 50, 150}, {50}, {Ones}, {<<Identity2, Identity2>>},
                      {<<Q0, Q0>>}, {<<Q1, Q0>>}, {<<Q0, Q0>>}, {<<3, 1, 4, 2>>})] }

InitLong ==
  /\ cfg \in PlainCfgs({MaxIterLong}, {200})
  /\ data \in DataLong
  /\ Blank
  /\ ba = NoCall /\ em = NoCall

SpecLong == InitLong /\ [][Next]_vars

\* runs past the iteration where the SVI step size drops below 1, with
\* singular-vector pairs of both orientations
DataRigid ==
  { [sample |-> RegularSample,
     num |-> [Numerics({200}, {50}, {Ones},
                       {<<Identity2, Identity2>>, <<Rot90, Identity2>>, <<Rot90, Flip>>},
                       {<<Q0, Q0>>, <<Q1, Q0>>}, {<<Q1, Q0>>}, {<<Q0, Q0>>}, {<<3, 1, 4, 2>>})
              EXCEPT !.backend = b]] : b \in {"numpy", "torch"} }

InitRigid ==
  /\ cfg \in PlainCfgs({MaxIterRigid}, {200})
  /\ data \in DataRigid
  /\ Blank
  /\ ba = NoCall /\ em = NoCall

SpecRigid == InitRigid /\ [][Next]_vars

\* E-steps on many inputs: both samples, alpha with zero entries, gamma at
\* both clamps, sigma2 at the floor, non-zero GP variances
DataP ==
  { [sample |-> smp,
     num |-> Numerics({5, 200}, {0, 50, 250}, {Ones, <<Q0, Q1>>, <<QHalf, Q(1, 4)>>},
                      {<<Identity2, Identity2>>},
                      {<<Q0, Q0>>, <<Q1, Q0>>}, {<<Q1, Q0>>}, {<<Q0, Q0>>, <<Q1, Q0>>}, {<<3, 1, 4, 2>>})] :
    smp \in {RegularSample, FlatSample} }

InitP ==
  /\ cfg \in PlainCfgs({MaxIter}, {120})
  /\ data \in DataP
  /\ Blank
  /\ ba = NoCall /\ em = NoCall

SpecP == InitP /\ [][Next]_vars

\* coarse alignments: voxelised samples of more than top_K voxels, of
\* top_K voxels and of fewer, single-voxel samples; graded inlier weights
\* and weights that are all equal
DataCoarse ==
  { [sample |-> RegularSample,
     num |-> [Numerics({200}, {50}, {Ones}, {<<Identity2, Identity2>>},
                       {<<Q1, Q0>>}, {<<Q1, Q0>>}, {<<Q0, Q0>>}, {<<3, 1, 4, 2>>})
              EXCEPT !.voxels = vox, !.weights = w]] :
    vox \in {<<top_K + 1, top_K + 1>>, <<top_K + 2, top_K>>, <<3, top_K + 2>>, <<1, 1>>},
    w \in {GradedWeights, LowWeights, <<40>>, <<100>>} }

InitCoarse ==
  /\ cfg \in PlainCfgs({MaxIter}, {200})
  /\ data \in DataCoarse
  /\ Blank
  /\ ba = NoCall /\ em = NoCall

SpecCoarse == InitCoarse /\ [][Next]_vars

\* what _randperm(n) can return
Perms(n) == {p \in [1..n -> 1..n] : Range(p) = 1..n}

\* SVI runs on every permutation of four reference points and on some of
\* six, with batch sizes that divide NB, that do not, and that exceed it
DataBatch ==
  { [sample |-> RegularSample,
     num |-> Numerics({200}, {50}, {Ones}, {<<Identity2, Identity2>>},
                      {<<Q1, Q0>>}, {<<Q1, Q0>>}, {<<Q0, Q0>>}, Perms(4))],
    [sample |-> WideSample,
     num |-> Numerics({200}, {50}, {Ones}, {<<Identity2, Identity2>>},
                      {<<Q1, Q0>>}, {<<Q1, Q0>>}, {<<Q0, Q0>>},
                      {<<1, 2, 3, 4, 5, 6>>, <<4, 6, 1, 5, 2, 3>>, <<6, 5, 4, 3, 2, 1>>})] }

BatchSizes == {1, 2, 3, 4, 7}

InitBatch ==
  /\ cfg \in {[c EXCEPT !.batch_size = b] : c \in {d \in PlainCfgs({MaxIterBatch}, {200}) : d.SVI_mode}, b \in BatchSizes}
  /\ data \in DataBatch
  /\ Blank
  /\ ba = NoCall /\ em = NoCall

SpecBatch == InitBatch /\ [][Next]_vars

(***************************************************************************)
(* BA_align of morpho.py: the same algorithm as one function.  Its locals  *)
(* are the fields of ba; the arguments it shares with Morpho_pairwise are  *)
(* read from cfg and data, keep_size is a field of ba.                     *)
(***************************************************************************)
QMax(x, y) == IF QLe(x, y) THEN y ELSE x

\* max - min of a set of fractions, NaN as soon as one of them is
QExtent(S) ==
  IF \E x \in S : IsNaN(x) THEN QNaN
  ELSE LET hi == CHOOSE m \in S : \A x \in S : QLe(x, m)
           lo == CHOOSE m \in S : \A x \in S : QLe(m, x)
       IN  QSub(hi, lo)

\* _prod(nx)(nx.max(X, axis=0) - nx.min(X, axis=0))
QBBoxVolume(X) ==
  QMul(QExtent({X[i][1] : i \in DOMAIN X}), QExtent({X[i][2] : i \in DOMAIN X}))

\* get_P with samples_s = None (morpho.py lines 109-113)
BA_get_P(XnAHat, idx, s2, alph, gam, Sig, ov) ==
  get_P(calc_distance(XnAHat, Rows(coordsB, idx)), Cols(data.sample.G, idx), S2(s2), data.sample.beta2, alph, G100(gam), Sig,
        QMax(QBBoxVolume(XnAHat), QBBoxVolume(Rows(coordsB, idx))), ov)

\* outlier_variance_decrease = partial_robust_level ^ (1 / (max_iter / 2)):
\* the root itself where it is an integer up to RootMax; it is irrational
\* in general, and the model then takes 1 + (level - 1) / (max_iter / 2),
\* which exceeds 1 exactly when the power does and reaches level in no more
\* multiplications
\* b ^ n, or cap + 1 once the power exceeds cap
RECURSIVE PowCap(_, _, _)
PowCap(b, n, cap) ==
  IF n = 0 THEN 1
  ELSE LET p == PowCap(b, n - 1, cap)
       IN  IF p > cap \div b THEN cap + 1 ELSE p * b

\* the integers r up to RootMax with r ^ (max_iter / 2) = level
IntRoots(level, max_iter) ==
  {r \in 1..RootMax : PowCap(r, max_iter, level * level) = level * level}

outlier_variance_decrease(level, max_iter) ==
  IF IntRoots(level, max_iter) # {}
  THEN QInt(CHOOSE r \in IntRoots(level, max_iter) : TRUE)
  ELSE Q(2 * (level - 1) + max_iter, max_iter)

\* the locals of BA_align at its entry
BAEntry(keep) ==
  [ pc |-> "init", err |-> NoErr, keep_size |-> keep, bound |-> {},
    iter |-> -1, sigma2 |-> 0, gamma |-> 0, alpha |-> << >>,
    outlier_variance |-> Q0, step_size |-> Q0, batch_size |-> 0,
    randomidx |-> << >>, randIdx |-> << >>, used |-> << >>,
    R |-> Identity2, t |-> ZeroVec, RnA |-> << >>, VnA |-> << >>, XAHat |-> << >>,
    Coff |-> ZeroVec, SigmaDiag |-> << >>, P |-> << >>, area |-> Q0,
    VnA_first |-> -1, VnA_last |-> -1, optimal_RnA |-> << >>, vecfld |-> FALSE ]

BARaise(where, exc) == [ba EXCEPT !.pc = "error", !.err = [at |-> where, exc |-> exc]]

\* lines 332-442: the initial values.  Line 432 assigns the rolled
\* permutation to randomIdx, a name nothing reads: randomidx stays as drawn
BAInit ==
  /\ ba.pc = "init"
  /\ \E perm \in data.num.perms :
       LET bs == InitBatchSize(NB, cfg.batch_size)
       IN  ba' = [ba EXCEPT
                    !.pc = "loop",
                    !.area = QBBoxVolume(coordsA),
                    !.alpha = [i \in 1..NA |-> Q1],
                    !.VnA = [i \in 1..NA |-> ZeroVec],
                    !.gamma = GammaInit,
                    !.SigmaDiag = [i \in 1..NA |-> Q0],
                    !.XAHat = coordsA, !.RnA = coordsA,
                    !.sigma2 = cfg.sigma2_init,
                    !.outlier_variance = Q1,
                    !.batch_size = IF cfg.SVI_mode THEN bs ELSE @,
                    !.randomidx = IF cfg.SVI_mode THEN perm ELSE @,
                    !.randIdx = IF cfg.SVI_mode THEN SubSeq(perm, 1, bs) ELSE @]
  /\ UNCHANGED <<ctlVars, objVars, em>>

\* line 453: for iter in range(max_iter)
BALoopHead ==
  /\ ba.pc = "loop"
  /\ ba' = IF ba.iter + 1 < cfg.max_iter
           THEN [ba EXCEPT !.iter = @ + 1, !.pc = "get_P"]
           ELSE [ba EXCEPT !.pc = "full_data"]
  /\ UNCHANGED <<ctlVars, objVars, em>>

\* lines 459-485: the E-step, on the batch under SVI
BAGetP ==
  /\ ba.pc = "get_P"
  /\ LET idx == IF cfg.SVI_mode THEN ba.randIdx ELSE AllB
     IN  ba' = [ba EXCEPT
                  !.pc = "anneal",
                  !.step_size = IF cfg.SVI_mode THEN StepSize(ba.iter) ELSE @,
                  !.bound = IF cfg.SVI_mode THEN @ \cup {"step_size"} ELSE @,
                  !.used = LastN(Append(@, idx), 2),
                  !.P = BA_get_P(ba.XAHat, idx, ba.sigma2, ba.alpha, ba.gamma, ba.SigmaDiag, ba.outlier_variance).P]
  /\ UNCHANGED <<ctlVars, objVars, em>>

\* lines 487-493; beta2_end = beta2 in the samples of the model, so beta2
\* stays
\* an annealing that starts one iteration later
MutAnnealDue(it) == it > AnnealStart + 1

\* line 487: if iter > 5
AnnealDue(it) == it > AnnealStart

BAAnneal ==
  /\ ba.pc = "anneal"
  /\ ba' = [ba EXCEPT
              !.pc = "gamma",
              !.outlier_variance =
                 IF AnnealDue(ba.iter)
                 THEN QMin(QMul(@, outlier_variance_decrease(cfg.partial_robust_level, cfg.max_iter)), QInt(cfg.partial_robust_level))
                 ELSE @]
  /\ UNCHANGED <<ctlVars, objVars, em>>

\* lines 503-514
BAGamma ==
  /\ ba.pc = "gamma"
  /\ \E g \in data.num.gam : ba' = [ba EXCEPT !.pc = "alpha", !.gamma = ClampGamma(g)]
  /\ UNCHANGED <<ctlVars, objVars, em>>

\* line 517: step_size is bound in the SVI branch of line 460 only
BAAlpha ==
  /\ ba.pc = "alpha"
  /\ IF "step_size" \in ba.bound
     THEN \E a \in data.num.alphas : ba' = [ba EXCEPT !.pc = "nonrigid", !.alpha = VBlend(ba.step_size, a, @)]
     ELSE ba' = BARaise("alpha", "UnboundLocalError")
  /\ UNCHANGED <<ctlVars, objVars, em>>

\* line 520
BADue(it, s2) == (s2 < NonrigidSigma2) \/ (it > NonrigidIter)

\* lines 520-547: VnA, Coff and SigmaDiag, when due
BANonrigid ==
  /\ ba.pc = "nonrigid"
  /\ IF BADue(ba.iter, ba.sigma2)
     THEN \E c \in data.num.coff : \E sd \in data.num.sdiag :
            ba' = [ba EXCEPT
                     !.pc = "rigid",
                     !.Coff = c,
                     !.VnA = [i \in 1..NA |-> VScale(data.sample.U[i], c)],
                     !.SigmaDiag = [i \in 1..NA |-> QMul(S2(ba.sigma2), sd[i])],
                     !.VnA_first = IF @ < 0 THEN ba.iter ELSE @,
                     !.VnA_last = ba.iter]
     ELSE ba' = [ba EXCEPT !.pc = "rigid"]
  /\ UNCHANGED <<ctlVars, objVars, em>>

\* lines 550-607: t and R, blended under SVI from iteration 2 on, then
\* RnA and XAHat
\* morpho.py lines 567 and 602: the previous t and R are blended in
BABlendDue(svi, it) == svi /\ it > 1

BARigid ==
  /\ ba.pc = "rigid"
  /\ \E f \in data.num.svd : \E tn \in data.num.tv :
       LET blend == BABlendDue(cfg.SVI_mode, ba.iter)
           tNew == IF blend THEN VBlend(ba.step_size, tn, ba.t) ELSE tn
           RNew == IF blend THEN MBlend(ba.step_size, SvdRotation(f), ba.R) ELSE SvdRotation(f)
           RnANew == [i \in 1..NA |-> ApplyRigid(coordsA[i], RNew, tNew)]
       IN  ba' = [ba EXCEPT
                    !.pc = "sigma2",
                    !.t = tNew, !.R = RNew, !.RnA = RnANew,
                    !.bound = @ \cup {"t"},
                    !.XAHat = [i \in 1..NA |-> VAdd(RnANew[i], ba.VnA[i])]]
  /\ UNCHANGED <<ctlVars, objVars, em>>

\* lines 615-621: the only floor of BA_align is 1e-3
BAFloorSigma2(raw) == IF raw < Sigma2Floor THEN Sigma2Floor ELSE raw

\* lines 610-622
BASigma2 ==
  /\ ba.pc = "sigma2"
  /\ \E raw \in data.num.sig : ba' = [ba EXCEPT !.pc = "next_batch", !.sigma2 = BAFloorSigma2(raw)]
  /\ UNCHANGED <<ctlVars, objVars, em>>

\* lines 625-633
BANextBatch ==
  /\ ba.pc = "next_batch"
  /\ ba' = IF cfg.SVI_mode /\ ba.iter < cfg.max_iter - 1
           THEN [ba EXCEPT
                   !.pc = "loop",
                   !.randIdx = SubSeq(ba.randomidx, 1, ba.batch_size),
                   !.randomidx = Roll(ba.randomidx, ba.batch_size)]
           ELSE [ba EXCEPT !.pc = "loop"]
  /\ UNCHANGED <<ctlVars, objVars, em>>

\* lines 637-649: get_P_chunk on all reference points after an SVI loop
BAFullData ==
  /\ ba.pc = "full_data"
  /\ ba' = IF cfg.SVI_mode
           THEN [ba EXCEPT
                   !.pc = "get_optimal_R",
                   !.P = BA_get_P(ba.XAHat, AllB, ba.sigma2, ba.alpha, ba.gamma, ba.SigmaDiag, ba.outlier_variance).P]
           ELSE [ba EXCEPT !.pc = "get_optimal_R"]
  /\ UNCHANGED <<ctlVars, objVars, em>>

\* lines 651-656
BAOptimalR ==
  /\ ba.pc = "get_optimal_R"
  /\ \E f \in data.num.svd : \E tn \in data.num.tv :
       ba' = [ba EXCEPT
                !.pc = "keep_size",
                !.optimal_RnA = [i \in 1..NA |-> ApplyRigid(coordsA[i], SvdRotation(f), tn)]]
  /\ UNCHANGED <<ctlVars, objVars, em>>

\* lines 661-663: XAHat * (area / area_after)
KeepSize(X, area) ==
  LET area_after == QBBoxVolume(X)
  IN  [i \in DOMAIN X |-> VScale(QDiv(area, area_after), X[i])]

BAKeepSize ==
  /\ ba.pc = "keep_size"
  /\ ba' = IF ba.keep_size
           THEN [ba EXCEPT !.pc = "output", !.XAHat = KeepSize(@, ba.area)]
           ELSE [ba EXCEPT !.pc = "output"]
  /\ UNCHANGED <<ctlVars, objVars, em>>

\* lines 665-698: denormalisation and the transform record
BAOutput ==
  /\ ba.pc = "output"
  /\ ba' = [ba EXCEPT
              !.pc = "done",
              !.XAHat = Denormalize(@), !.RnA = Denormalize(@), !.optimal_RnA = Denormalize(@),
              !.vecfld = cfg.vecfld_key_added]
  /\ UNCHANGED <<ctlVars, objVars, em>>

NextBA ==
  \/ BAInit
  \/ BALoopHead
  \/ BAGetP
  \/ BAAnneal
  \/ BAGamma
  \/ BAAlpha
  \/ BANonrigid
  \/ BARigid
  \/ BASigma2
  \/ BANextBatch
  \/ BAFullData
  \/ BAOptimalR
  \/ BAKeepSize
  \/ BAOutput

\* calls of BA_align: sigma2 expressions below the 1e-2 mark, below and
\* above the threshold of the non-rigid update; a kernel coefficient that
\* deforms the moving sample
DataBA ==
  { [sample |-> RegularSample,
     num |-> Numerics({50, 120, 200}, {50}, {Ones}, {<<Identity2, Identity2>>},
                      {<<Q1, Q0>>}, {<<Q1, Q0>>}, {<<Q0, Q0>>}, {<<3, 1, 4, 2>>})] }

InitBA ==
  /\ cfg \in {[c EXCEPT !.nn_init = FALSE, !.vecfld_key_added = v] : c \in PlainCfgs({MaxIterBA}, {120, 200}), v \in BOOLEAN}
  /\ data \in DataBA
  /\ Blank
  /\ ba \in {BAEntry(keep) : keep \in BOOLEAN}
  /\ em = NoCall

SpecBA == InitBA /\ [][NextBA]_vars

DataAnneal ==
  { [sample |-> RegularSample,
     num |-> Numerics({120, 200}, {50}, {Ones}, {<<Identity2, Identity2>>},
                      {<<Q1, Q0>>}, {<<Q1, Q0>>}, {<<Q0, Q0>>}, {<<3, 1, 4, 2>>})] }

\* 2 ^ n
RECURSIVE Pow2(_)
Pow2(n) == IF n = 0 THEN 1 ELSE 2 * Pow2(n - 1)

\* runs of BA_align through the annealing of outlier_variance: levels 1
\* and 2 ^ max_iter, whose annealing factor is 4, on runs that stop short
\* of the cap and runs that reach it
InitAnneal ==
  /\ cfg \in {[c EXCEPT !.nn_init = FALSE, !.max_iter = n, !.partial_robust_level = l[n]] :
               c \in PlainCfgs({MaxIterAnneal}, {200}), n \in {MaxIterAnneal - 2, MaxIterAnneal},
               l \in {[k \in 1..MaxIterAnneal |-> 1], [k \in 1..MaxIterAnneal |-> Pow2(k)]}}
  /\ data \in DataAnneal
  /\ Blank
  /\ ba \in {BAEntry(keep) : keep \in BOOLEAN}
  /\ em = NoCall

SpecAnneal == InitAnneal /\ [][NextBA]_vars

(***************************************************************************)
(* nbn_em (preprocessing/segmentation/em.py): the EM loop of the negative  *)
(* binomial mixture.  Its locals are the fields of em; w, lam and theta    *)
(* are pairs of fractions, and the result of an E and M step, which        *)
(* depends on the counts X, is drawn from data-independent candidates.     *)
(***************************************************************************)
QAbs(x) == <<Abs(x[1]), x[2]>>

\* np.abs(a - b).max(): NaN as soon as one entry is NaN
AbsDiffMax(a, b) ==
  LET d == [k \in DOMAIN a |-> QAbs(QSub(a[k], b[k]))]
  IN  IF \E k \in DOMAIN d : IsNaN(d[k]) THEN QNaN
      ELSE IF QLe(d[1], d[2]) THEN d[2] ELSE d[1]

\* Python's max(a, b, c): an argument replaces the current maximum only
\* if it compares greater
PyMax(a, b, c) ==
  LET m == IF QLt(a, b) THEN b ELSE a
  IN  IF QLt(m, c) THEN c ELSE m

\* line 97
HasNaN(p) == \E k \in 1..2 : IsNaN(p.w[k]) \/ IsNaN(p.lam[k]) \/ IsNaN(p.theta[k])

\* lines 99-104
Converged(cur, prev, precision) ==
  QLt(PyMax(AbsDiffMax(cur.w, prev.w), AbsDiffMax(cur.lam, prev.lam), AbsDiffMax(cur.theta, prev.theta)), precision)

\* the initial values of lines 59-62 for the default arguments, lam
\* rounded to integers, and the same with an undefined theta
EMStart == [w |-> <<Q(99, 100), Q(1, 100)>>, lam |-> <<QInt(7), QInt(69)>>, theta |-> <<QHalf, QHalf>>]

EMStartNaN == [EMStart EXCEPT !.theta = <<QNaN, QHalf>>]

\* results of one E and M step: moves above and below the precision of
\* 1/10, and a NaN in each of w, lam, theta
EMCandidates ==
  { EMStart,
    [EMStart EXCEPT !.lam = <<Q(141, 20), QInt(69)>>],
    [EMStart EXCEPT !.w = <<Q(9, 10), Q(1, 10)>>, !.lam = <<QInt(8), QInt(60)>>],
    [EMStart EXCEPT !.w = <<QNaN, QNaN>>],
    [EMStart EXCEPT !.lam = <<QInt(7), QNaN>>],
    [EMStart EXCEPT !.theta = <<QNaN, QHalf>>] }

\* the arguments and locals of nbn_em at its entry
EMEntry(max_iter, start) ==
  [ pc |-> "init", err |-> NoErr, max_iter |-> max_iter, precision |-> Q(1, 10),
    start |-> start, cur |-> start, prev |-> start, isnan |-> FALSE, bound |-> {},
    n |-> 0, hist |-> << >>, ret |-> start ]

\* lines 59-67
EMInit ==
  /\ em.pc = "init"
  /\ em' = [em EXCEPT !.pc = "loop", !.cur = em.start, !.prev = em.start, !.hist = <<em.start>>]
  /\ UNCHANGED <<ctlVars, objVars, ba>>

\* line 69: for _ in range(max_iter)
EMLoopHead ==
  /\ em.pc = "loop"
  /\ em' = [em EXCEPT !.pc = IF em.n < em.max_iter THEN "step" ELSE "return"]
  /\ UNCHANGED <<ctlVars, objVars, ba>>

\* lines 70-97: the E and M step, then isnan
EMStep ==
  /\ em.pc = "step"
  /\ \E c \in EMCandidates :
       em' = [em EXCEPT !.pc = "test", !.cur = c, !.isnan = HasNaN(c),
                        !.bound = @ \cup {"isnan"}, !.n = @ + 1, !.hist = Append(@, c)]
  /\ UNCHANGED <<ctlVars, objVars, ba>>

\* lines 98-110
EMTest ==
  /\ em.pc = "test"
  /\ em' = IF Converged(em.cur, em.prev, em.precision) \/ em.isnan
           THEN [em EXCEPT !.pc = "return"]
           ELSE [em EXCEPT !.pc = "loop", !.prev = em.cur]
  /\ UNCHANGED <<ctlVars, objVars, ba>>

\* a return that hands out the current parameters in every case
MutEMResult(isnan, prev, cur) == cur

\* lines 112-116; r is lamtheta_to_r of the returned lam and theta
EMResult(isnan, prev, cur) == IF isnan THEN prev ELSE cur

\* lines 112-116: isnan is bound in the loop body only
EMReturn ==
  /\ em.pc = "return"
  /\ em' = IF "isnan" \in em.bound
           THEN [em EXCEPT !.pc = "done", !.ret = EMResult(em.isnan, em.prev, em.cur)]
           ELSE [em EXCEPT !.pc = "error", !.err = [at |-> "return", exc |-> "UnboundLocalError"]]
  /\ UNCHANGED <<ctlVars, objVars, ba>>

NextEM ==
  \/ EMInit
  \/ EMLoopHead
  \/ EMStep
  \/ EMTest
  \/ EMReturn

InitEM ==
  /\ cfg \in PlainCfgs({MaxIter}, {200})
  /\ data \in DataAnneal
  /\ Blank
  /\ ba = NoCall
  /\ em \in {EMEntry(n, start) : n \in {0, 1, MaxIterEM}, start \in {EMStart, EMStartNaN}}

SpecEM == InitEM /\ [][NextEM]_vars

(***************************************************************************)
(* Properties.                                                             *)
(***************************************************************************)
Called(m) == m \in Range(trace)

LastCall == IF trace = << >> THEN "" ELSE trace[Len(trace)]

ConstructionSteps == {"_check", "_align_preprocess", "_construct_kernel", "_initialize_variational_variables"}

Constructed == pc \notin ConstructionSteps /\ ~(pc = "error" /\ err.at \in ConstructionSteps)

\* the iteration is latched: due at its non-rigid branch
LatchRule ==
  /\ nonrigid_flag => nonrigid_flag'
  /\ (~nonrigid_flag /\ nonrigid_flag') =>
        (pc = "_update_nonrigid" /\ (iter > NonrigidIter \/ sigma2 < NonrigidSigma2))
  /\ (pc = "_update_nonrigid" /\ (iter > NonrigidIter \/ sigma2 < NonrigidSigma2 \/ nonrigid_flag)) =>
        (nonrigid_flag' /\ trace' = Append(trace, "_update_nonrigid"))
  /\ (pc = "_update_nonrigid" /\ ~(iter > NonrigidIter \/ sigma2 < NonrigidSigma2 \/ nonrigid_flag)) =>
        (~nonrigid_flag' /\ trace' = trace)

\* C1: nonrigid_flag starts False; it becomes True exactly at the first
\* iteration whose non-rigid branch finds iter > 80 or sigma2 < 0.015; once
\* True it is never False again, and from then on every iteration calls
\* _update_nonrigid whatever iter and sigma2 are.
C1_NonrigidLatch == (~nonrigid_flag) /\ [][LatchRule]_vars

\* the latch holds the non-rigid update on in an iteration that is not due
\* by itself
C1_Witness ==
  /\ nonrigid_flag /\ iter <= NonrigidIter /\ sigma2 >= NonrigidSigma2
  /\ pc = "_update_rigid" /\ Called("_update_nonrigid") /\ iter >= 2

Rank(m) ==
  CASE m = "_update_batch" -> 1
    [] m = "_update_assignment_P" -> 2
    [] m = "_update_gamma" -> 3
    [] m = "_update_alpha" -> 4
    [] m = "_update_nonrigid" -> 5
    [] m = "_update_rigid" -> 6
    [] m = "recompose" -> 7
    [] m = "_update_sigma2" -> 8

\* the calls of the current iteration follow the fixed order: the batch
\* first under SVI, nothing skipped but the non-rigid update of an
\* unlatched iteration
OrderedTrace ==
  /\ trace # << >> => trace[1] = (IF cfg.SVI_mode THEN "_update_batch" ELSE "_update_assignment_P")
  /\ \A k \in 1..(Len(trace) - 1) :
       \/ Rank(trace[k + 1]) = Rank(trace[k]) + 1
       \/ trace[k] = "_update_alpha" /\ trace[k + 1] = "_update_rigid" /\ ~nonrigid_flag
  /\ Called("_update_rigid") => (Called("_update_nonrigid") <=> nonrigid_flag)

\* C2: inside an iteration the steps run in the order batch (SVI only),
\* E-step, gamma, alpha, non-rigid (if latched), rigid, recomposition of
\* XAHat = RnA + VnA, sigma2; and the loop variable only advances after the
\* sigma2 update of the iteration before.
C2_StepOrder ==
  [][ /\ OrderedTrace'
      /\ (trace' = Append(trace, "recompose")) => (XAHat' = [i \in 1..NA |-> VAdd(RnA[i], VnA[i])])
      /\ (iter' # iter) => (trace' = << >> /\ counts["_update_sigma2"] = iter') ]_vars

C2_Witness ==
  /\ pc = "loop" /\ iter = 1
  /\ trace = <<"_update_batch", "_update_assignment_P", "_update_gamma", "_update_alpha", "_update_nonrigid", "_update_rigid", "recompose", "_update_sigma2">>

LoopLeft == Constructed /\ pc \notin {"run", "loop"} \cup LoopSteps /\ ~(pc = "error" /\ err.at = "_coarse_rigid_alignment")

\* C3, as the spec states it: once the loop of run is left, it has made
\* exactly max_iter iterations, each update executed max_iter times.
C3_ExactlyMaxIter ==
  LoopLeft => \A m \in CountedSteps \ {"_update_batch"} : counts[m] = cfg.max_iter

\* C7, as the spec states it: when run has returned, the exposed R and t are
\* the ones XAHat was composed from: XAHat = coordsA R^T + t + VnA, then
\* denormalised.
C7_ExposedRigid ==
  pc = "done" => XAHat = Denormalize([i \in 1..NA |-> VAdd(ApplyRigid(coordsA[i], R, t), VnA[i])])

\* C9, as the spec states it: with use_chunk the E-step leaves what it
\* leaves without: it completes, and P is the block of the current batch
\* (SVI) or of all reference points (full batch).
C9_ChunkEquivalence ==
  (cfg.use_chunk /\ LastCall = "_update_assignment_P") =>
     /\ pc = "_update_gamma"
     /\ P = (IF SVI_mode THEN CoreOn(batch_idx) ELSE CoreOn(AllB))

\* C10: an argument list with a configuration fault (spatial key or
\* representation layer absent, invalid dissimilarity, probability_type or
\* guidance_effect, dimension mismatch) never yields a constructed object:
\* __init__ raises in _check or _align_preprocess, before run can be called.
C10_FaultsFailEarly ==
  Faults(cfg) # {} =>
     /\ pc \in {"_check", "_align_preprocess", "error"}
     /\ pc = "error" => (err.at \in {"_check", "_align_preprocess"} /\ err.exc \in {"ValueError", "KeyError", "AssertionError"})

C10_Witness ==
  /\ Faults(cfg) = {"spatialB"} /\ pc = "error" /\ err = [at |-> "_check", exc |-> "KeyError"]

C6_ProperRotation ==
  (LastCall \in {"_update_rigid", "recompose", "_update_sigma2"} /\ pc # "error") => IsRotation(R)

\* what get_P and the E-step require of their arguments
PPre ==
  /\ \A i \in 1..NA : QLe(Q0, alpha[i])
  /\ sigma2 > 0 /\ 0 < gamma /\ gamma < 100

PGood ==
  /\ \A i \in DOMAIN P : \A j \in DOMAIN P[i] : QLe(Q0, P[i][j])
  /\ \A j \in DOMAIN P[1] : QLe(ColSum(P, j), Q1)

\* C8, as the spec states it: for alpha >= 0, sigma2 > 0 and 0 < gamma < 1,
\* every entry of P is >= 0 and every column of P sums to at most 1, for
\* get_P and for the E-step of the engine.
C8_Original ==
  (pc = "_update_gamma" /\ PPre) => PGood

\* C8, amended: the same, for samples whose bounding box has a positive
\* volume (samples_s > 0), without which the outlier term is a division
\* by zero.
C8_AssignmentBounds ==
  (pc = "_update_gamma" /\ PPre /\ QLt(Q0, samples_s)) => PGood

\* an E-step with a zero alpha entry, a positive entry of P and a column
\* that sums to less than 1
C8_Witness ==
  /\ pc = "_update_gamma" /\ PPre /\ QLt(Q0, samples_s)
  /\ \E i \in 1..NA : alpha[i] = Q0
  /\ \E i \in DOMAIN P : \E j \in DOMAIN P[i] : QLt(Q0, P[i][j])
  /\ \E j \in DOMAIN P[1] : QLt(ColSum(P, j), Q1)

\* a run the further code paths (guidance, chunks, the transform record)
\* stay out of
BareRun ==
  /\ Faults(cfg) = {} /\ cfg.guidance_effect = "False" /\ ~cfg.guidance_pair
  /\ ~cfg.use_chunk /\ ~cfg.vecfld_key_added

Ended == pc \in {"done", "error"}

\* C11, as the spec states it: with SVI_mode set, pre_compute_dist True or
\* False, run makes one full-batch assignment update after the loop: the
\* run ends with SVI_mode cleared, P of NB columns and K_NB the column sums
\* of this P.
C11_FinalFullAssignment ==
  (cfg.SVI_mode /\ BareRun /\ Ended) =>
     /\ pc = "done" /\ ~SVI_mode
     /\ \A i \in 1..NA : Len(P[i]) = NB
     /\ K_NB = [j \in 1..NB |-> ColSum(P, j)]

\* C12, as the spec states it: with vecfld_key_added given, nn_init True
\* or False, _wrap_output completes and leaves the transform record: every
\* attribute it reads has been assigned before.
C12_TransformRecord ==
  /\ (cfg.vecfld_key_added /\ pc = "_wrap_output") => VecfldReads \subseteq attrs
  /\ (cfg.vecfld_key_added /\ Ended /\ "optimal_RnA" \in attrs) => (pc = "done" /\ vecfld)

\* C14, as the spec states it: the multiplier sigma2_variance the E-step
\* reads is 1 through iteration 5 and grows in every later iteration, so
\* with partial_robust_level > 1 and max_iter >= 12 the E-step of the last
\* iteration reads a multiplier above 1.
C14_VarianceAnnealed ==
  /\ (pc = "_update_assignment_P" /\ iter <= AnnealStart) => sigma2_variance = Q1
  /\ (pc = "_update_assignment_P" /\ iter = cfg.max_iter - 1 /\ cfg.max_iter >= 12 /\ cfg.partial_robust_level > 1) =>
        QLt(Q1, sigma2_variance)

\* guidance pairs that take effect: line 390
Guided == cfg.guidance_pair /\ cfg.guidance_effect \in ValidGuidanceEffects /\ cfg.guidance_epsilon > 0

\* C17, as the spec states it: with guidance pairs in effect every guidance
\* field is assigned before it is read, so construction and the loop
\* complete; without a guidance pair no step reads a guidance field,
\* whatever guidance_effect is.
C17_GuidanceAssigned ==
  /\ (Guided /\ Faults(cfg) = {}) => ~(pc = "error" /\ err.at \in ConstructionSteps)
  /\ (~cfg.guidance_pair /\ pc = "error") => ~(err.at = "_update_rigid" /\ err.exc = "UnboundLocalError")

\* C15, as the spec states it: on non-empty point sets
\* _coarse_rigid_alignment returns without raising and keeps a non-empty
\* inlier set of the highest-weighted candidate pairs, also with fewer than
\* 21 candidate pairs, with a voxelised set of top_K or fewer points, and
\* with candidate weights that are all equal.
C15_CoarseAlignment ==
  (cfg.nn_init /\ Constructed /\ pc # "run") =>
     /\ ~(pc = "error" /\ err.at = "_coarse_rigid_alignment")
     /\ inlier_set # {}
     /\ \A k \in inlier_set : \A l \in DOMAIN PairWeights \ inlier_set : PairWeights[k] > PairWeights[l]

\* the batch sits in the permutation where a cyclic shift by batch_size
\* moves its first batch_size entries to
ShiftedIn(batch, perm) ==
  \A k \in DOMAIN batch : batch[k] = perm[((k - 1 + Len(batch)) % Len(perm)) + 1]

\* C13: under SVI each iteration's batch is the first batch_size entries of
\* a permutation of the NB reference indices, which is then shifted
\* cyclically by batch_size; so every batch holds batch_size distinct
\* indices, the batches of any floor(NB / batch_size) consecutive
\* iterations are pairwise disjoint, and when batch_size divides NB any
\* NB / batch_size consecutive batches partition the reference set.
C13_BatchRotation ==
  (cfg.SVI_mode /\ "batch_perm" \in attrs) =>
     /\ Len(batch_perm) = NB /\ Range(batch_perm) = 1..NB
     /\ Len(batches) <= NB \div batch_size
     /\ batches # << >> => (batches[Len(batches)] = batch_idx /\ ShiftedIn(batch_idx, batch_perm))
     /\ \A k \in DOMAIN batches :
          /\ Len(batches[k]) = batch_size
          /\ Cardinality(Range(batches[k])) = batch_size
          /\ Range(batches[k]) \subseteq 1..NB
     /\ \A k \in DOMAIN batches : \A l \in DOMAIN batches :
          k < l => Range(batches[k]) \cap Range(batches[l]) = {}
     /\ (NB % batch_size = 0 /\ Len(batches) = NB \div batch_size) =>
          UNION {Range(batches[k]) : k \in DOMAIN batches} = 1..NB

\* three consecutive batches of two partition six reference points, past
\* the first three iterations; and two batches of a size that does not
\* divide NB
C13_Witness ==
  /\ NB = 6 /\ batch_size = 2 /\ iter = 4 /\ pc = "_update_assignment_P"
  /\ Len(batches) = 3 /\ batches[3] = batch_idx
  /\ UNION {Range(batches[k]) : k \in DOMAIN batches} = 1..NB

\* C16, as the spec states it: with keep_size the bounding-box volume of
\* the non-rigid coordinates BA_align is about to denormalise equals the
\* bounding-box volume of the moving coordinates before alignment.
C16_KeepSize ==
  (ba.keep_size /\ ba.pc = "output") => QBBoxVolume(ba.XAHat) = ba.area

\* C18, as the spec states it: once the non-rigid update of BA_align has
\* executed in some iteration, it executes in every later iteration,
\* whatever sigma2 becomes.
C18_NonrigidStays ==
  (ba.VnA_first >= 0 /\ ba.pc \in {"rigid", "sigma2", "next_batch"}) => ba.VnA_last = ba.iter

\* C19, as the spec states it: under SVI with 2 * batch_size <= NB the
\* batches of two consecutive iterations of BA_align are disjoint, those of
\* iterations 0 and 1 included.
C19_ConsecutiveBatches ==
  (cfg.SVI_mode /\ 2 * ba.batch_size <= NB /\ Len(ba.used) = 2) =>
     Range(ba.used[1]) \cap Range(ba.used[2]) = {}

\* C20, as the spec states it: in BA_align sigma2 is >= 1e-2 after the
\* sigma2 update of every iteration with index below 100, and >= 1e-3
\* after every iteration.
C20_Sigma2Floors ==
  ba.pc = "next_batch" =>
     /\ ba.sigma2 >= Sigma2Floor
     /\ ba.iter < EarlyIters => ba.sigma2 >= Sigma2EarlyFloor

\* C23: no step of the run loop modifies the normalised base coordinates:
\* after every rigid update RnA is the rigid transformation of the base
\* moving coordinates, VnA is U * Coff, and after the recomposition XAHat
\* is RnA + VnA.
C23_BaseCoordinatesFixed ==
  /\ pc \notin {"_check", "_align_preprocess", "error"} =>
       base = [coordsA |-> coordsA, coordsB |-> coordsB]
  /\ pc = "recompose" => RnA = [i \in 1..NA |-> ApplyRigid(coordsA[i], R, t)]
  /\ pc \in {"_update_rigid", "recompose", "_update_sigma2"} =>
       VnA = [i \in 1..NA |-> VScale(data.sample.U[i], Coff)]
  /\ pc = "_update_sigma2" => XAHat = [i \in 1..NA |-> VAdd(VnA[i], RnA[i])]

\* the second iteration has recomposed a rotated, shifted and deformed
\* configuration
C23_Witness ==
  /\ pc = "_update_sigma2" /\ iter = 1
  /\ R # Identity2 /\ t # ZeroVec /\ VnA # [i \in 1..NA |-> ZeroVec]
  /\ XAHat # base.coordsA

\* C24, as the spec states it: in full-batch mode every non-rigid update
\* completes, and a full-batch run with max_iter > 81 reaches the output
\* assembly.
C24_FullBatchNonrigid ==
  ~cfg.SVI_mode =>
     /\ ~(pc = "error" /\ err.at = "_update_nonrigid")
     /\ (cfg.max_iter > NonrigidIter + 1 /\ Ended) => pc = "done"

\* C25, as the spec states it: BA_align called with SVI_mode=False
\* completes every iteration, the alpha update included.
C25_FullBatchAlpha ==
  (~cfg.SVI_mode /\ ba.pc = "error") => ba.err.at # "alpha"

\* C22: under SVI the step size used in iteration t is min(1, 10 / (t + 1)):
\* exactly 1 for t = 0..9, 10 / (t + 1) < 1 for t >= 10, never increasing
\* and always in (0, 1].
C22_StepSize ==
  /\ [] /\ QLt(Q0, step_size) /\ QLe(step_size, Q1)
        /\ (SVI_mode /\ pc \in LoopSteps \ {"_update_batch"}) =>
             /\ iter <= 9 => step_size = <<1, 1>>
             /\ iter >= 10 => /\ step_size[1] * (iter + 1) = 10 * step_size[2]
                              /\ step_size[1] < step_size[2]
  /\ [][QLe(step_size', step_size)]_vars

\* the rigid update of iteration 11 runs with step size 10 / 12
C22_Witness ==
  SVI_mode /\ pc = "_update_rigid" /\ iter = 11 /\ step_size = <<5, 6>>

NthHighest(w, n) ==
  CHOOSE v \in Range(w) :
    /\ Cardinality({k \in DOMAIN w : w[k] > v}) < n
    /\ Cardinality({k \in DOMAIN w : w[k] >= v}) >= n

StrictlyAbove(w, n) ==
  LET v == NthHighest(w, n)
  IN  {k \in DOMAIN w : w[k] > (IF v < 50 THEN v ELSE 50)}

CoarseReturned == cfg.nn_init /\ "inlier_P" \in attrs

\* C26, as the spec states it: the inlier threshold of the coarse aligner
\* is min(w20, 0.5) with w20 the 20th highest candidate weight, and the
\* inlier set is the set of pairs whose weight is strictly greater.
C26_Original == CoarseReturned => inlier_set = StrictlyAbove(PairWeights, InlierRank)

\* C26, amended: the inlier threshold is min(w21, 0.5) with w21 the 21st
\* highest candidate weight (index 20 of the descending order, counted
\* from 0), and the inlier set is the set of pairs whose weight is strictly
\* greater than that threshold.
C26_InlierThreshold == CoarseReturned => inlier_set = StrictlyAbove(PairWeights, InlierRank + 1)

\* all weights below 0.5: the 20 pairs of the highest weight are the
\* inliers, the pairs of the 21st highest weight are not
C26_Witness ==
  /\ CoarseReturned /\ data.num.weights = LowWeights
  /\ NthHighest(PairWeights, InlierRank) = 45 /\ NthHighest(PairWeights, InlierRank + 1) = 40
  /\ Cardinality(inlier_set) = InlierRank
  /\ \A k \in inlier_set : PairWeights[k] = 45

\* C29, as the spec states it: after construction every feature layer
\* whose probability_type is 'gauss' or 'gaussian' and for which no
\* probability parameter was supplied has a non-None bandwidth in
\* probability_parameters before the first E-step.
C29_BandwidthSet ==
  (Constructed /\ cfg.probability_type \in {"gauss", "gaussian"} /\ cfg.probability_parameters = "None") =>
     probability_parameters # "None"

\* C27, as the spec states it: in _update_rigid with nn_init=True,
\* computing the weighted centroids leaves the sums PXA, PXB, PVA and the
\* mass Sp unchanged, so the coarse-alignment anchor term enters the
\* translation numerator exactly once, as it enters the denominator.
C27_AnchorOnce ==
  (cfg.nn_init /\ pc = "recompose") =>
     /\ rig.PXA = 0 /\ rig.PXB = 0 /\ rig.PVA = 0 /\ rig.Sp = 0
     /\ rig.t_numerator = 1 /\ rig.t_deno = 1

\* the annealing factor partial_robust_level ^ (2 / max_iter), where it is
\* an integer
AnnealFactor ==
  CHOOSE r \in 1..RootMax :
    PowCap(r, cfg.max_iter, cfg.partial_robust_level * cfg.partial_robust_level) = cfg.partial_robust_level * cfg.partial_robust_level

AnnealRule ==
  /\ (ba.pc = "anneal" /\ ba.iter >= 6) =>
        /\ ba'.outlier_variance = QMin(QMul(ba.outlier_variance, QInt(AnnealFactor)), QInt(cfg.partial_robust_level))
        /\ ba.iter = 6 => ba.outlier_variance = Q1
  /\ (ba.pc # "init" /\ ba'.outlier_variance # ba.outlier_variance) =>
        /\ ba.pc = "anneal" /\ ba.iter >= 6
        /\ QLt(ba.outlier_variance, ba'.outlier_variance)

SmallMove(p, q, precision) ==
  \A k \in 1..2 :
     /\ QLt(QAbs(QSub(p.w[k], q.w[k])), precision)
     /\ QLt(QAbs(QSub(p.lam[k], q.lam[k])), precision)
     /\ QLt(QAbs(QSub(p.theta[k], q.theta[k])), precision)

\* C30: nbn_em performs at most max_iter EM iterations and stops at the
\* first iteration whose largest absolute change in w, lam and theta is
\* below precision; an iteration that produces a NaN stops the loop and
\* the parameters of the last NaN-free iteration are returned (the initial
\* ones if the first iteration fails), so with NaN-free initial values the
\* returned w and theta contain no NaN.
C30_EMStops ==
  /\ em.pc \notin {"idle", "init"} => em.n <= em.max_iter /\ Len(em.hist) = em.n + 1
  /\ em.pc = "done" =>
       LET h == em.hist
           last == h[Len(h)]
           before == h[Len(h) - 1]
       IN  /\ em.max_iter >= 1 /\ em.n >= 1
           /\ em.ret = IF HasNaN(last) THEN before ELSE last
           /\ ~HasNaN(h[1]) =>
                /\ \A k \in 2..(Len(h) - 1) : ~HasNaN(h[k]) /\ ~SmallMove(h[k], h[k - 1], em.precision)
                /\ em.n < em.max_iter => HasNaN(last) \/ SmallMove(last, before, em.precision)
                /\ \A k \in 1..2 : ~IsNaN(em.ret.w[k]) /\ ~IsNaN(em.ret.theta[k])

\* the third iteration produced a NaN in theta and the parameters of the
\* second are returned
C30_Witness ==
  /\ em.pc = "done" /\ em.n = 3 /\ ~HasNaN(em.hist[1])
  /\ IsNaN(em.hist[4].theta[1]) /\ em.ret = em.hist[3] /\ em.ret # em.hist[1]

====
